---- MODULE Spec2Model ----
(***************************************************************************)
(* Model of the P25 trunking receiver worker of p25rx (src/src/recv.rs)    *)
(* and of its fixed parameters (src/src/consts.rs).                        *)
(*                                                                         *)
(* The worker is a single thread: run() blocks on the inbound channel,     *)
(* feeds every sample of a batch to the decoder and dispatches the decoded *)
(* message to the trunking state machine.  The decoder (p25 crate), the    *)
(* producer of inbound events and the three consumers of the outbound      *)
(* channels are outside the repository: the decoder's answer to a sample   *)
(* and the producer's next event are inputs chosen from small sets, and a  *)
(* send may find its receiving side gone, which makes the worker panic.    *)
(***************************************************************************)
EXTENDS Integers, Sequences, FiniteSets, TLC

(***************************************************************************)
(* Fixed parameters, consts.rs.                                            *)
(***************************************************************************)
BUF_COUNT == 16

BUF_SIZE_RAW == 32768

\* mutant: the byte pairs are not halved
BUF_SIZE_COMPLEX_NotHalved == BUF_SIZE_RAW

BUF_SIZE_COMPLEX == BUF_SIZE_RAW \div 2

SDR_SAMPLE_RATE == 240000

BASEBAND_SAMPLE_RATE == 48000

\* p25::consts::SAMPLE_RATE, the rate the decoder expects
SAMPLE_RATE == 48000

(***************************************************************************)
(* Bounds of the model.                                                    *)
(***************************************************************************)
\* concrete talkgroup identifiers are 1..MaxGroup
MaxGroup == 2

\* the channel parameter table has the entries 0..NumChannels-1
NumChannels == 2

\* channel offset numbers are 1..MaxNumber
MaxNumber == 2

\* a group traffic update carries at most MaxUpdates pairs
MaxUpdates == 2

\* a batch holds at most MaxBatch samples
MaxBatch == 1

\* control frequencies requested by SetControlFreq are 1..MaxFreq
MaxFreq == 2

\* voice frames are 1..MaxFrame
MaxFrame == 2

\* channel parameters have the bases 100, 200, .. MaxBase*100
MaxBase == 2

\* the returns to control since the last follow are counted up to MaxReturns
MaxReturns == 2

\* SpecLog logs at most MaxLog notifications
MaxLog == 7

\* in SpecQueue the producer sends at most MaxArrivals events
MaxArrivals == 4

\* in SpecQueue a batch holds at most MaxQueueBatch samples
MaxQueueBatch == 2

(***************************************************************************)
(* Values.                                                                 *)
(***************************************************************************)
\* p25::trunking::fields::TalkGroup, as far as recv.rs tells its variants apart
Default == [tag |-> "Default", id |-> 0]

Other(x) == [tag |-> "Other", id |-> x]

GroupIds == 1..MaxGroup

TalkGroup == {Default} \cup {Other(x) : x \in GroupIds}

ChannelIds == 0..(NumChannels - 1)

Channel == [id : ChannelIds, number : 1..MaxNumber]

\* an Option<ChannelParams>: None, or the parameters of a frequency band
None == [some |-> FALSE, base |-> 0, spacing |-> 0]

Some(p) == [some |-> TRUE, base |-> p.base, spacing |-> p.spacing]

ChannelParams == [base : {100 * b : b \in 1..MaxBase}, spacing : {10}]

CryptoAlgorithm == {"Unencrypted", "DES", "AES"}

DataUnit == {"VoiceLCTerminator", "VoiceSimpleTerminator", "TrunkingSignaling"}

(***************************************************************************)
(* Inbound events (ReceiverEvent) and decoded messages (MessageEvent).     *)
(* A batch is known by its number of samples; a sample is known by what    *)
(* MessageReceiver::feed answers for it.  A trunking control block is      *)
(* known by its manufacturer code, its integrity check, its opcode and the *)
(* fields its payload decodes to under that opcode.                        *)
(***************************************************************************)
Baseband(n) == [kind |-> "Baseband", len |-> n]

SetControlFreq(f) == [kind |-> "SetControlFreq", freq |-> f]

\* feed() answered None
NoMessage == [kind |-> "None"]

UpdatePair == [ch : Channel, tg : TalkGroup]

RECURSIVE SeqsUpTo(_, _)
\* the sequences over S of length at most n
SeqsUpTo(S, n) ==
    IF n = 0 THEN {<<>>}
    ELSE LET shorter == SeqsUpTo(S, n - 1)
         IN  shorter \cup {Append(q, e) : q \in {r \in shorter : Len(r) = n - 1}, e \in S}

\* what a payload decodes to: the pairs of a group traffic update, or the
\* id and parameters of a channel parameters update; an opcode recv.rs does
\* not act on ("GroupVoiceGrant") or an unrecognized one ("Unknown", for
\* which opcode() is None) has its payload never decoded
Payload ==
    [opcode : {"GroupVoiceUpdate"}, updates : SeqsUpTo(UpdatePair, MaxUpdates)]
    \cup [opcode : {"ChannelParamsUpdate"}, id : ChannelIds, params : ChannelParams]
    \cup [opcode : {"GroupVoiceGrant", "Unknown"}]

TSBK == {[kind |-> "TrunkingControl", mfg |-> m, crc_valid |-> c, payload |-> p] :
            m \in {0, 1}, c \in BOOLEAN, p \in Payload}

MessageEvent ==
    [kind : {"Error", "LinkControl", "LowSpeedDataFragment", "VoiceTerm"}]
    \cup [kind : {"PacketNID"}, data_unit : DataUnit]
    \cup [kind : {"VoiceHeader", "CryptoControl"}, alg : CryptoAlgorithm]
    \cup [kind : {"VoiceFrame"}, vf : 1..MaxFrame]
    \cup TSBK

(***************************************************************************)
(* Outbound notifications: UIEvent, ControllerEvent, AudioEvent.           *)
(***************************************************************************)
SetFreq(f) == [type |-> "SetFreq", freq |-> f]

SetTalkGroup(tg) == [type |-> "SetTalkGroup", tg |-> tg]

VoiceFrame(vf) == [type |-> "VoiceFrame", vf |-> vf]

EndTransmission == [type |-> "EndTransmission"]

(***************************************************************************)
(* State.                                                                  *)
(***************************************************************************)
VARIABLES
    control_freq,   \* P25Receiver.control_freq
    channels,       \* P25Receiver.channels: ChannelIds -> Option<ChannelParams>
    cur_talkgroup,  \* P25Receiver.cur_talkgroup
    encrypted,      \* P25Receiver.encrypted
    pc,             \* where run() is: "recv", "samples", "extra", "panicked"
    left,           \* samples of the current batch not fed yet
    event,          \* the inbound event or decoded message handled by the last step
    trace,          \* what the last step did, in order: sends, resyncs, use_talkgroup calls
    before,         \* history: the receiver's fields when the last step began
    tuner,          \* history: the last retune the tuner control received
    last_set,       \* history: the frequency of the last SetControlFreq handled (0: none)
    learned,        \* history: per channel id, the last accepted channel parameters update
    failed,         \* history: the send that found its receiver gone (NoFailure: none did)
    followed,       \* history: the talkgroup of the last use_talkgroup that returned
                    \* true, and the returns to control since (counted up to MaxReturns)
    inbox,          \* the inbound channel: events the producer sent, not received yet
    arrived,        \* history: the events the producer sent, in order
    received,       \* history: the events recv() handed over, in order
    batch,          \* history: the last batch received, its samples fed so far, in
                    \* order, and what the sample sink was invoked with since
    log,            \* history: the notifications delivered, in order
    frames          \* history: the voice frames decoded, in order

\* the inbound channel and the logs
aux == <<inbox, arrived, received, batch, log, frames>>

vars == <<control_freq, channels, cur_talkgroup, encrypted, pc, left, event, trace,
          before, tuner, last_set, learned, failed, followed, aux>>

state == <<control_freq, channels, cur_talkgroup, encrypted>>

\* the receiver's fields, as one record
Fields ==
    [control_freq |-> control_freq, channels |-> channels,
     cur_talkgroup |-> cur_talkgroup, encrypted |-> encrypted]

(***************************************************************************)
(* Steps of a handler, in program order.  A handler is modelled by the     *)
(* sequence of steps it takes from the state it is called in; Run applies  *)
(* them, up to the first send that fails.                                  *)
(***************************************************************************)
Send(to, ev) == [op |-> "send", to |-> to, ev |-> ev]

Resync == [op |-> "resync"]

AssignTalkGroup(tg) == [op |-> "cur_talkgroup", tg |-> tg]

InsertEncrypted(x) == [op |-> "encrypted.insert", id |-> x]

StoreParams(id, p) == [op |-> "channels.store", id |-> id, params |-> p]

\* a call of use_talkgroup and what it returned (recorded, no effect)
Called(tg, ch, ok) == [op |-> "use_talkgroup", tg |-> tg, ch |-> ch, ok |-> ok]

(***************************************************************************)
(* The trunking state machine.                                             *)
(***************************************************************************)
\* ChannelParams::rx_freq (p25 crate): the receive frequency of the channel
\* with the given offset number in the band
rx_freq(p, number) == p.base + p.spacing * number

\* mutant: the tuner control is told before the status
set_freq_TunerFirst(freq) == <<Send("sdr", SetFreq(freq)), Send("ui", SetFreq(freq))>>

set_freq(freq) == <<Send("ui", SetFreq(freq)), Send("sdr", SetFreq(freq))>>

\* mutant: the return to control forgets the followed group
switch_control_ResetsTalkGroup == <<AssignTalkGroup(Default)>> \o set_freq(control_freq)

switch_control == set_freq(control_freq)

\* mutant: the group is not remembered as encrypted
handle_crypto_NoInsert(alg) ==
    IF alg = "Unencrypted" THEN <<>>
    ELSE switch_control \o <<Resync>>

\* mutant: a group is marked only while the tuner is on its traffic channel
handle_crypto_OnlyWhileFollowing(alg) ==
    IF alg = "Unencrypted" THEN <<>>
    ELSE switch_control \o <<Resync>>
         \o (IF cur_talkgroup.tag = "Other" /\ tuner.kind = "traffic"
             THEN <<InsertEncrypted(cur_talkgroup.id)>>
             ELSE <<>>)

\* mutant: the algorithm is not looked at
handle_crypto_AnyAlg(alg) ==
    switch_control \o <<Resync>>
    \o (IF cur_talkgroup.tag = "Other"
        THEN <<InsertEncrypted(cur_talkgroup.id)>>
        ELSE <<>>)

handle_crypto(alg) ==
    IF alg = "Unencrypted" THEN <<>>
    ELSE switch_control \o <<Resync>>
         \o (IF cur_talkgroup.tag = "Other"
             THEN <<InsertEncrypted(cur_talkgroup.id)>>
             ELSE <<>>)

\* mutant: the Encrypted-Group Set is not consulted
use_talkgroup_NoEncryptedCheck(tg, ch) ==
    IF ~channels[ch.id].some THEN <<Called(tg, ch, FALSE)>>
    ELSE <<AssignTalkGroup(tg)>>
         \o set_freq(rx_freq(channels[ch.id], ch.number))
         \o <<Send("ui", SetTalkGroup(tg)), Called(tg, ch, TRUE)>>

\* mutant: current_talkgroup is assigned before the channel is looked up
use_talkgroup_AssignsEarly(tg, ch) ==
    IF tg.tag = "Other" /\ tg.id \in encrypted THEN <<Called(tg, ch, FALSE)>>
    ELSE IF ~channels[ch.id].some THEN <<AssignTalkGroup(tg), Called(tg, ch, FALSE)>>
    ELSE <<AssignTalkGroup(tg)>>
         \o set_freq(rx_freq(channels[ch.id], ch.number))
         \o <<Send("ui", SetTalkGroup(tg)), Called(tg, ch, TRUE)>>

\* mutant: a group that is already current is not switched to again
use_talkgroup_SkipsCurrent(tg, ch) ==
    IF tg.tag = "Other" /\ tg.id \in encrypted THEN <<Called(tg, ch, FALSE)>>
    ELSE IF ~channels[ch.id].some THEN <<Called(tg, ch, FALSE)>>
    ELSE IF tg = cur_talkgroup THEN <<Called(tg, ch, TRUE)>>
    ELSE <<AssignTalkGroup(tg)>>
         \o set_freq(rx_freq(channels[ch.id], ch.number))
         \o <<Send("ui", SetTalkGroup(tg)), Called(tg, ch, TRUE)>>

use_talkgroup(tg, ch) ==
    IF tg.tag = "Other" /\ tg.id \in encrypted THEN <<Called(tg, ch, FALSE)>>
    ELSE IF ~channels[ch.id].some THEN <<Called(tg, ch, FALSE)>>
    ELSE <<AssignTalkGroup(tg)>>
         \o set_freq(rx_freq(channels[ch.id], ch.number))
         \o <<Send("ui", SetTalkGroup(tg)), Called(tg, ch, TRUE)>>

\* what the call whose steps these are returned
Returned(steps) == steps[Len(steps)].ok

RECURSIVE GroupVoiceUpdate_NoBreak(_, _)
\* mutant: the loop goes on after a use_talkgroup that succeeds
GroupVoiceUpdate_NoBreak(updates, i) ==
    IF i > Len(updates) THEN <<>>
    ELSE LET ch == updates[i].ch
             tg == updates[i].tg
         IN  IF Returned(use_talkgroup(tg, ch))
             THEN use_talkgroup(tg, ch) \o <<Resync>>
                  \o GroupVoiceUpdate_NoBreak(updates, i + 1)
             ELSE use_talkgroup(tg, ch) \o GroupVoiceUpdate_NoBreak(updates, i + 1)

RECURSIVE GroupVoiceUpdate(_, _)
\* the loop over updates[i..]: stop at the first use_talkgroup that succeeds
GroupVoiceUpdate(updates, i) ==
    IF i > Len(updates) THEN <<>>
    ELSE LET ch == updates[i].ch
             tg == updates[i].tg
         IN  IF Returned(use_talkgroup(tg, ch))
             THEN use_talkgroup(tg, ch) \o <<Resync>>
             ELSE use_talkgroup(tg, ch) \o GroupVoiceUpdate(updates, i + 1)

\* mutant: an entry already learned is kept
ChannelParamsUpdate_KeepsFirst(id, params) ==
    IF channels[id].some THEN <<>> ELSE <<StoreParams(id, params)>>

ChannelParamsUpdate(id, params) == <<StoreParams(id, params)>>

\* mutant: the integrity check is not made
TrunkingControl_NoCrcCheck(tsbk) ==
    IF tsbk.mfg # 0 THEN <<>>
    ELSE IF tsbk.payload.opcode = "Unknown" THEN <<>>
    ELSE IF tsbk.payload.opcode = "GroupVoiceUpdate"
         THEN GroupVoiceUpdate(tsbk.payload.updates, 1)
    ELSE IF tsbk.payload.opcode = "ChannelParamsUpdate"
         THEN ChannelParamsUpdate(tsbk.payload.id, tsbk.payload.params)
    ELSE <<>>

TrunkingControl(tsbk) ==
    IF tsbk.mfg # 0 THEN <<>>
    ELSE IF ~tsbk.crc_valid THEN <<>>
    ELSE IF tsbk.payload.opcode = "Unknown" THEN <<>>
    ELSE IF tsbk.payload.opcode = "GroupVoiceUpdate"
         THEN GroupVoiceUpdate(tsbk.payload.updates, 1)
    ELSE IF tsbk.payload.opcode = "ChannelParamsUpdate"
         THEN ChannelParamsUpdate(tsbk.payload.id, tsbk.payload.params)
    ELSE <<>>

\* mutant: only one of the two terminators is acted on
PacketNID_OneTerminator(data_unit) ==
    IF data_unit = "VoiceLCTerminator"
    THEN switch_control \o <<Send("audio", EndTransmission), Resync>>
    ELSE <<>>

\* mutant: the decoder is not resynchronized after the terminator
PacketNID_NoResync(data_unit) ==
    IF data_unit \in {"VoiceLCTerminator", "VoiceSimpleTerminator"}
    THEN switch_control \o <<Send("audio", EndTransmission)>>
    ELSE <<>>

PacketNID(data_unit) ==
    IF data_unit \in {"VoiceLCTerminator", "VoiceSimpleTerminator"}
    THEN switch_control \o <<Send("audio", EndTransmission), Resync>>
    ELSE <<>>

\* mutant: the voice frames of a group of the Encrypted-Group Set are dropped
handle_sample_MutesEncrypted(m) ==
    CASE m.kind = "None" -> <<>>
      [] m.kind = "Error" -> <<>>
      [] m.kind = "PacketNID" -> PacketNID(m.data_unit)
      [] m.kind = "VoiceHeader" -> handle_crypto(m.alg)
      [] m.kind = "LinkControl" -> <<>>
      [] m.kind = "CryptoControl" -> handle_crypto(m.alg)
      [] m.kind = "LowSpeedDataFragment" -> <<>>
      [] m.kind = "VoiceFrame" ->
            IF cur_talkgroup.tag = "Other" /\ cur_talkgroup.id \in encrypted
            THEN <<>> ELSE <<Send("audio", VoiceFrame(m.vf))>>
      [] m.kind = "TrunkingControl" -> TrunkingControl(m)
      [] m.kind = "VoiceTerm" -> <<>>

\* mutant: a voice terminator message returns to control
handle_sample_VoiceTermSwitches(m) ==
    CASE m.kind = "None" -> <<>>
      [] m.kind = "Error" -> <<>>
      [] m.kind = "PacketNID" -> PacketNID(m.data_unit)
      [] m.kind = "VoiceHeader" -> handle_crypto(m.alg)
      [] m.kind = "LinkControl" -> <<>>
      [] m.kind = "CryptoControl" -> handle_crypto(m.alg)
      [] m.kind = "LowSpeedDataFragment" -> <<>>
      [] m.kind = "VoiceFrame" -> <<Send("audio", VoiceFrame(m.vf))>>
      [] m.kind = "TrunkingControl" -> TrunkingControl(m)
      [] m.kind = "VoiceTerm" -> switch_control \o <<Resync>>

\* the steps of handle_sample for the message feed() answered
handle_sample(m) ==
    CASE m.kind = "None" -> <<>>
      [] m.kind = "Error" -> <<>>
      [] m.kind = "PacketNID" -> PacketNID(m.data_unit)
      [] m.kind = "VoiceHeader" -> handle_crypto(m.alg)
      [] m.kind = "LinkControl" -> <<>>
      [] m.kind = "CryptoControl" -> handle_crypto(m.alg)
      [] m.kind = "LowSpeedDataFragment" -> <<>>
      [] m.kind = "VoiceFrame" -> <<Send("audio", VoiceFrame(m.vf))>>
      [] m.kind = "TrunkingControl" -> TrunkingControl(m)
      [] m.kind = "VoiceTerm" -> <<>>

(***************************************************************************)
(* Running the steps of a handler.  Every send is an expect(): it panics   *)
(* when the receiving side of the channel is gone, which the consumer      *)
(* decides.  fail = 0: every send is delivered; fail = i: the send at      *)
(* step i finds its receiver gone, after the steps before it were taken.   *)
(***************************************************************************)
FailPoints(steps) == {0} \cup {i \in 1..Len(steps) : steps[i].op = "send"}

Taken(steps, fail) == IF fail = 0 THEN steps ELSE SubSeq(steps, 1, fail - 1)

Indices(done, op) == {i \in 1..Len(done) : done[i].op = op}

Max(S) == CHOOSE i \in S : \A j \in S : j <= i

\* the retune the tuner control is left with after the steps done
Retuned(done) ==
    LET sdr == {i \in Indices(done, "send") : done[i].to = "sdr"}
        tgs == Indices(done, "cur_talkgroup")
    IN  IF sdr = {} THEN tuner
        ELSE IF tgs = {} THEN [kind |-> "control", tg |-> Default]
        ELSE [kind |-> "traffic", tg |-> done[Max(tgs)].tg]

NoFailure == [op |-> "none"]

\* the last talkgroup followed and the returns to control since, after the steps done
Follows(done) ==
    LET sdr == {i \in Indices(done, "send") : done[i].to = "sdr"}
        tgs == Indices(done, "cur_talkgroup")
        oks == {i \in Indices(done, "use_talkgroup") : done[i].ok}
    IN  IF oks # {} THEN [tg |-> done[Max(oks)].tg, returns |-> 0]
        ELSE IF sdr # {} /\ tgs = {} /\ followed.returns < MaxReturns
             THEN [followed EXCEPT !.returns = @ + 1]
        ELSE followed

\* the steps done take effect, in order
Apply(done) ==
    LET tgs == Indices(done, "cur_talkgroup")
        stores == Indices(done, "channels.store")
    IN  /\ cur_talkgroup' = IF tgs = {} THEN cur_talkgroup ELSE done[Max(tgs)].tg
        /\ encrypted' = encrypted \cup {done[i].id : i \in Indices(done, "encrypted.insert")}
        /\ channels' = [id \in ChannelIds |->
                           LET w == {i \in stores : done[i].id = id}
                           IN  IF w = {} THEN channels[id] ELSE Some(done[Max(w)].params)]
        /\ trace' = done
        /\ tuner' = Retuned(done)
        /\ followed' = Follows(done)

\* mutant: a send that finds its receiver gone is skipped and the handler goes on
Run_IgnoresFailure(steps, fail) ==
    /\ Apply(IF fail = 0 THEN steps
             ELSE SubSeq(steps, 1, fail - 1) \o SubSeq(steps, fail + 1, Len(steps)))
    /\ failed' = IF fail = 0 THEN NoFailure ELSE steps[fail]
    /\ pc' = IF left = 1 THEN "extra" ELSE "samples"

Run(steps, fail) ==
    /\ Apply(Taken(steps, fail))
    /\ failed' = IF fail = 0 THEN NoFailure ELSE steps[fail]
    /\ pc' = IF fail # 0 THEN "panicked"
             ELSE IF left = 1 THEN "extra" ELSE "samples"

(***************************************************************************)
(* run(): the worker's loop.                                               *)
(***************************************************************************)
Init ==
    /\ control_freq = 0
    /\ channels = [id \in ChannelIds |-> None]
    /\ cur_talkgroup = Default
    /\ encrypted = {}
    /\ pc = "recv"
    /\ left = 0
    /\ event = [kind |-> "new"]
    /\ trace = <<>>
    /\ before = Fields
    /\ tuner = [kind |-> "none", tg |-> Default]
    /\ last_set = 0
    /\ learned = [id \in ChannelIds |-> None]
    /\ failed = NoFailure
    /\ followed = [tg |-> Default, returns |-> 0]
    /\ inbox = <<>>
    /\ arrived = <<>>
    /\ received = <<>>
    /\ batch = [ev |-> [kind |-> "new"], fed |-> <<>>, sunk |-> <<>>]
    /\ log = <<>>
    /\ frames = <<>>

\* recv() hands over a batch of n samples
RecvBaseband ==
    /\ pc = "recv"
    /\ \E n \in 0..MaxBatch :
          /\ event' = Baseband(n)
          /\ left' = n
          /\ pc' = IF n = 0 THEN "extra" ELSE "samples"
    /\ trace' = <<>>
    /\ before' = Fields
    /\ UNCHANGED <<state, tuner, last_set, learned, failed, followed, aux>>

\* mutant: the request retunes at once
RecvSetControlFreq_Retunes ==
    /\ pc = "recv"
    /\ \E f \in 1..MaxFreq :
          /\ event' = SetControlFreq(f)
          /\ control_freq' = f
          /\ last_set' = f
          /\ trace' = set_freq(f)
    /\ before' = Fields
    /\ tuner' = [kind |-> "control", tg |-> Default]
    /\ UNCHANGED <<channels, cur_talkgroup, encrypted, pc, left, learned, failed, followed, aux>>

\* recv() hands over a request to change the control frequency
RecvSetControlFreq ==
    /\ pc = "recv"
    /\ \E f \in 1..MaxFreq :
          /\ event' = SetControlFreq(f)
          /\ control_freq' = f
          /\ last_set' = f
    /\ trace' = <<>>
    /\ before' = Fields
    /\ UNCHANGED <<channels, cur_talkgroup, encrypted, pc, left, tuner, learned,
                   failed, followed, aux>>

\* recv() fails: the producer has disconnected and nothing is queued
RecvDisconnected ==
    /\ pc = "recv"
    /\ pc' = "panicked"
    /\ event' = [kind |-> "Disconnected"]
    /\ trace' = <<>>
    /\ before' = Fields
    /\ UNCHANGED <<state, left, tuner, last_set, learned, failed, followed, aux>>

\* a trunking control block that passes the validation of handle_sample
Accepted(m) ==
    /\ m.kind = "TrunkingControl"
    /\ m.mfg = 0
    /\ m.crc_valid
    /\ m.payload.opcode # "Unknown"

\* the accepted channel parameters updates, after the message m
Learned(m) ==
    IF Accepted(m) /\ m.payload.opcode = "ChannelParamsUpdate"
    THEN [learned EXCEPT ![m.payload.id] = Some(m.payload.params)]
    ELSE learned

\* handle_sample(s) for a sample to which feed() answers m
Feed(m) ==
    /\ event' = m
    /\ learned' = Learned(m)
    /\ \E fail \in FailPoints(handle_sample(m)) : Run(handle_sample(m), fail)
    /\ left' = left - 1
    /\ before' = Fields
    /\ UNCHANGED <<control_freq, last_set>>

\* one turn of the loop over the samples of the batch
HandleSample ==
    /\ pc = "samples"
    /\ \E m \in {NoMessage} \cup MessageEvent : Feed(m)
    /\ UNCHANGED aux

\* extra.handle_samples(&samples) returns
HandleSamplesExtra ==
    /\ pc = "extra"
    /\ pc' = "recv"
    /\ event' = [kind |-> "Extra"]
    /\ trace' = <<>>
    /\ before' = Fields
    /\ UNCHANGED <<state, left, tuner, last_set, learned, failed, followed, aux>>

\* WriteSamples::handle_samples cannot write the batch
WriteSamplesFailed ==
    /\ pc = "extra"
    /\ pc' = "panicked"
    /\ event' = [kind |-> "ExtraFailed"]
    /\ trace' = <<>>
    /\ before' = Fields
    /\ UNCHANGED <<state, left, tuner, last_set, learned, failed, followed, aux>>

Next ==
    \/ RecvBaseband
    \/ RecvSetControlFreq
    \/ RecvDisconnected
    \/ HandleSample
    \/ HandleSamplesExtra
    \/ WriteSamplesFailed

Spec == Init /\ [][Next]_vars

(***************************************************************************)
(* Reading the last step.                                                  *)
(***************************************************************************)
IsSend(e) == e.op = "send"

IsCall(e) == e.op = "use_talkgroup"

ToUi(e) == e.op = "send" /\ e.to = "ui"

ToSdr(e) == e.op = "send" /\ e.to = "sdr"

ToAudio(e) == e.op = "send" /\ e.to = "audio"

\* the notifications the last step sent, to all and to each subsystem, in order
Sent == SelectSeq(trace, IsSend)

SentUi == SelectSeq(trace, ToUi)

SentSdr == SelectSeq(trace, ToSdr)

SentAudio == SelectSeq(trace, ToAudio)

\* the use_talkgroup calls of the last step that returned, in order
Calls == SelectSeq(trace, IsCall)

\* the last step was a handler that ran to its end
Completed == pc # "panicked"

Terminators == {"VoiceLCTerminator", "VoiceSimpleTerminator"}

\* the last step handled a packet boundary marker of a voice terminator
VoiceEnded == event.kind = "PacketNID" /\ event.data_unit \in Terminators

\* the last step handled a voice header or crypto control block
CryptoMessage == event.kind \in {"VoiceHeader", "CryptoControl"}

\* ... whose algorithm is not "unencrypted"
CryptoDetected == CryptoMessage /\ event.alg # "Unencrypted"

\* the last step handled a group traffic update that passed validation
GroupUpdateAccepted == Accepted(event) /\ event.payload.opcode = "GroupVoiceUpdate"

\* the last step handled a channel parameters update that passed validation
ParamsUpdateAccepted == Accepted(event) /\ event.payload.opcode = "ChannelParamsUpdate"

\* the last step handled a trunking control block that fails validation
Rejected ==
    /\ event.kind = "TrunkingControl"
    /\ \/ event.mfg # 0
       \/ ~event.crc_valid
       \/ event.payload.opcode = "Unknown"

\* the pair could be followed when the last step began: its talkgroup was not
\* in the Encrypted-Group Set and its channel id was in the table
Followable(u) ==
    /\ ~(u.tg.tag = "Other" /\ u.tg.id \in before.encrypted)
    /\ before.channels[u.ch.id].some

Min(S) == CHOOSE i \in S : \A j \in S : i <= j

\* the last step left the table, the set and the current talkgroup alone
Untouched ==
    /\ channels = before.channels
    /\ encrypted = before.encrypted
    /\ cur_talkgroup = before.cur_talkgroup

(***************************************************************************)
(* C1.  current_talkgroup is unassigned exactly when the tuner is parked   *)
(* on the control frequency (its last retune was a return to control, or   *)
(* it was never retuned), and after a use_talkgroup retune it is the       *)
(* concrete group of the traffic channel.                                  *)
(***************************************************************************)
C1_TalkgroupReflectsTuner ==
    Completed =>
        /\ cur_talkgroup = Default <=> tuner.kind \in {"none", "control"}
        /\ tuner.kind = "traffic" =>
              /\ cur_talkgroup.tag = "Other"
              /\ cur_talkgroup = tuner.tg

(***************************************************************************)
(* C2.  Once a group id is in the Encrypted-Group Set it stays there, and  *)
(* every later use_talkgroup call for that group returns false: the call   *)
(* does not assign current_talkgroup and sends no SetTalkGroup for it,     *)
(* whatever the channel and the table.                                     *)
(***************************************************************************)
C2_EncryptedNeverFollowed ==
    \A x \in before.encrypted :
        /\ x \in encrypted
        /\ \A i \in 1..Len(trace) :
              /\ IsCall(trace[i]) /\ trace[i].tg = Other(x) => ~trace[i].ok
              /\ trace[i] # AssignTalkGroup(Other(x))
              /\ trace[i] # Send("ui", SetTalkGroup(Other(x)))
        /\ cur_talkgroup = Other(x) => before.cur_talkgroup = Other(x)

\* a call for an encrypted group failed although its channel is in the table
C2_Witness ==
    \E i \in 1..Len(trace) :
        /\ IsCall(trace[i])
        /\ trace[i].tg.tag = "Other"
        /\ trace[i].tg.id \in before.encrypted
        /\ before.channels[trace[i].ch.id].some
        /\ ~trace[i].ok

(***************************************************************************)
(* C3.  An accepted group traffic update is scanned in list order and the  *)
(* receiver follows exactly the first followable pair (talkgroup not in    *)
(* the Encrypted-Group Set, channel id in the table): use_talkgroup is     *)
(* called for the pairs up to that one and for none after it,              *)
(* current_talkgroup ends as that pair's talkgroup and one retune is sent. *)
(* With no followable pair every pair is tried, current_talkgroup is       *)
(* unchanged and nothing is sent.  (Handlers that ran to their end.)       *)
(***************************************************************************)
C3_FollowsFirstFollowable ==
    GroupUpdateAccepted /\ Completed =>
        LET ups == event.payload.updates
            F == {i \in 1..Len(ups) : Followable(ups[i])}
            tried == IF F = {} THEN Len(ups) ELSE Min(F)
        IN  /\ Len(Calls) = tried
            /\ \A i \in 1..tried :
                  Calls[i] = Called(ups[i].tg, ups[i].ch, i \in F)
            /\ IF F = {}
               THEN /\ cur_talkgroup = before.cur_talkgroup
                    /\ Sent = <<>>
               ELSE LET u == ups[Min(F)]
                        freq == rx_freq(before.channels[u.ch.id], u.ch.number)
                    IN  /\ cur_talkgroup = u.tg
                        /\ SentSdr = <<Send("sdr", SetFreq(freq))>>
                        /\ SentUi = <<Send("ui", SetFreq(freq)),
                                      Send("ui", SetTalkGroup(u.tg))>>

\* the first pair's channel is unknown, the second pair is followed
C3_Witness ==
    /\ GroupUpdateAccepted /\ Completed
    /\ Len(event.payload.updates) = 2
    /\ ~before.channels[event.payload.updates[1].ch.id].some
    /\ Followable(event.payload.updates[2])
    /\ cur_talkgroup = event.payload.updates[2].tg
    /\ cur_talkgroup # before.cur_talkgroup

(***************************************************************************)
(* C4.  A voice header or crypto control block with an algorithm other     *)
(* than "unencrypted", handled while current_talkgroup is a concrete group *)
(* x, sends SetFreq(control frequency) to status and to tuner control,     *)
(* ends with x in the Encrypted-Group Set and leaves the Channel Parameter *)
(* Table as it was; with the unencrypted algorithm nothing changes and     *)
(* nothing is sent.  (Handlers that ran to their end.)                     *)
(***************************************************************************)
C4_CryptoDetected ==
    CryptoMessage =>
        /\ channels = before.channels
        /\ event.alg = "Unencrypted" => Fields = before /\ trace = <<>>
        /\ CryptoDetected /\ Completed /\ before.cur_talkgroup.tag = "Other" =>
              /\ SentUi = <<Send("ui", SetFreq(before.control_freq))>>
              /\ SentSdr = <<Send("sdr", SetFreq(before.control_freq))>>
              /\ SentAudio = <<>>
              /\ before.cur_talkgroup.id \in encrypted

\* encryption is detected on a followed group that was not yet in the set
C4_Witness ==
    /\ CryptoDetected /\ Completed
    /\ tuner.kind = "control"
    /\ before.cur_talkgroup.tag = "Other"
    /\ before.cur_talkgroup.id \notin before.encrypted
    /\ before.cur_talkgroup.id \in encrypted
    /\ \E id \in ChannelIds : channels[id].some

(***************************************************************************)
(* C5.  A packet boundary marker of a voice terminator, in any state,      *)
(* sends SetFreq(control frequency) to status and tuner control and        *)
(* exactly one EndTransmission to audio; nothing else sends                *)
(* EndTransmission.  (Handlers that ran to their end.)                     *)
(***************************************************************************)
C5_VoiceEnded ==
    /\ VoiceEnded /\ Completed =>
          /\ SentUi = <<Send("ui", SetFreq(before.control_freq))>>
          /\ SentSdr = <<Send("sdr", SetFreq(before.control_freq))>>
          /\ SentAudio = <<Send("audio", EndTransmission)>>
    /\ \A i \in 1..Len(trace) :
          trace[i] = Send("audio", EndTransmission) => VoiceEnded

\* the terminator arrives while a group marked encrypted is current
C5_Witness ==
    /\ VoiceEnded /\ Completed
    /\ event.data_unit = "VoiceSimpleTerminator"
    /\ before.cur_talkgroup.tag = "Other"
    /\ before.cur_talkgroup.id \in before.encrypted
    /\ before.control_freq # 0

(***************************************************************************)
(* C6.  A trunking control block with a non-zero manufacturer code, a      *)
(* failing integrity check or an unrecognized opcode changes neither the   *)
(* Channel Parameter Table, the Encrypted-Group Set nor current_talkgroup, *)
(* and sends nothing and forces no resync, whatever its payload.           *)
(***************************************************************************)
C6_RejectedBlockIgnored == Rejected => Untouched /\ trace = <<>>

\* a rejected block whose payload is a group traffic update with a followable
\* pair for another group than the current one
C6_Witness ==
    /\ Rejected
    /\ event.payload.opcode = "GroupVoiceUpdate"
    /\ event.mfg = 0
    /\ Len(event.payload.updates) > 0
    /\ Followable(event.payload.updates[1])
    /\ event.payload.updates[1].tg # cur_talkgroup

(***************************************************************************)
(* C7.  SetControlFreq(f) changes only the stored control frequency: it    *)
(* sends nothing and leaves current_talkgroup, the Encrypted-Group Set and *)
(* the Channel Parameter Table alone.  Every return to control (voice      *)
(* ended, crypto detected) retunes to the frequency of the most recent     *)
(* SetControlFreq, and to 0 if there was none.                             *)
(***************************************************************************)
C7_ControlFreqDeferred ==
    /\ event.kind = "SetControlFreq" =>
          /\ control_freq = event.freq
          /\ Untouched
          /\ trace = <<>>
    /\ event.kind # "SetControlFreq" => control_freq = before.control_freq
    /\ VoiceEnded \/ CryptoDetected =>
          /\ \A i \in 1..Len(trace) :
                ToUi(trace[i]) \/ ToSdr(trace[i]) => trace[i].ev = SetFreq(last_set)
          /\ Completed => SentSdr = <<Send("sdr", SetFreq(last_set))>>

\* the control frequency is changed while following a group on a traffic channel
C7_WitnessFollowing ==
    /\ event.kind = "SetControlFreq"
    /\ tuner.kind = "traffic"
    /\ cur_talkgroup.tag = "Other"
    /\ control_freq # before.control_freq
    /\ before.control_freq # 0

(***************************************************************************)
(* C8.  The frequency lookup of use_talkgroup succeeds exactly for the     *)
(* channel ids for which a channel parameters update was accepted: the     *)
(* entries start absent, an accepted update overwrites the entry of its id *)
(* and no other, an entry never becomes absent again, and the frequency    *)
(* tuned to is the one the last written parameters give for the channel's  *)
(* offset number.                                                          *)
(***************************************************************************)
C8_LookupIffLearned ==
    /\ channels = learned
    /\ event.kind = "new" => \A id \in ChannelIds : ~channels[id].some
    /\ \A id \in ChannelIds : before.channels[id].some => channels[id].some
    /\ ParamsUpdateAccepted =>
          channels = [before.channels EXCEPT
                         ![event.payload.id] = Some(event.payload.params)]
    /\ ~ParamsUpdateAccepted => channels = before.channels
    /\ \A i \in 1..Len(Calls) :
          LET c == Calls[i]
              looked_up == ~(c.tg.tag = "Other" /\ c.tg.id \in before.encrypted)
          IN  /\ looked_up => (c.ok <=> learned[c.ch.id].some)
              /\ c.ok => SentSdr = <<Send("sdr", SetFreq(learned[c.ch.id].base
                                      + learned[c.ch.id].spacing * c.ch.number))>>

\* a lookup succeeds for one channel id while the other id's entry is absent
C8_Witness ==
    /\ Len(Calls) = 2
    /\ ~Calls[1].ok /\ Calls[2].ok
    /\ Calls[1].ch.id # Calls[2].ch.id
    /\ ~learned[Calls[1].ch.id].some
    /\ Calls[1].tg.id \notin before.encrypted
    /\ Calls[2].ch.number = 2

(***************************************************************************)
(* C9.  The Encrypted-Group Set is empty at construction and grows only by *)
(* a crypto-detected transition, which inserts the id of the concrete      *)
(* group that is current_talkgroup at that moment; with current_talkgroup  *)
(* unassigned it inserts nothing, and no other operation inserts.          *)
(***************************************************************************)
C9_EncryptedOnlyByCrypto ==
    /\ event.kind = "new" => encrypted = {}
    /\ encrypted # before.encrypted =>
          /\ CryptoDetected
          /\ before.cur_talkgroup.tag = "Other"
          /\ encrypted = before.encrypted \cup {before.cur_talkgroup.id}
    /\ CryptoDetected /\ before.cur_talkgroup = Default => encrypted = before.encrypted
    /\ encrypted \subseteq GroupIds

\* a second group is marked encrypted
C9_Witness ==
    /\ CryptoDetected
    /\ before.encrypted # {}
    /\ encrypted # before.encrypted

(***************************************************************************)
(* C10.  The fixed parameters: baseband rate 48,000 Hz, the rate the       *)
(* decoder expects; intake rate 240,000 Hz, 5 times the baseband rate;     *)
(* batches of 32,768 bytes, which are 16,384 complex samples; 16 batches.  *)
(* (Stated of the batches the worker takes.)                               *)
(***************************************************************************)
C10_FixedParameters ==
    event.kind = "Baseband" =>
    /\ BASEBAND_SAMPLE_RATE = 48000
    /\ BASEBAND_SAMPLE_RATE = SAMPLE_RATE
    /\ SDR_SAMPLE_RATE = 240000
    /\ SDR_SAMPLE_RATE = 5 * BASEBAND_SAMPLE_RATE
    /\ BUF_SIZE_RAW = 32768
    /\ BUF_SIZE_COMPLEX = 16384
    /\ 2 * BUF_SIZE_COMPLEX = BUF_SIZE_RAW
    /\ BUF_COUNT = 16

\* the worker takes a batch in a build with these parameters
C10_Witness ==
    /\ event.kind = "Baseband"
    /\ SDR_SAMPLE_RATE \div BASEBAND_SAMPLE_RATE = 5
    /\ BUF_SIZE_RAW \div BUF_SIZE_COMPLEX = 2
    /\ BUF_COUNT * BUF_SIZE_RAW = 524288

(***************************************************************************)
(* C11.  Every retune (a SetFreq delivered to tuner control) is followed,  *)
(* in the same handler and so before the next sample is fed, by one forced *)
(* resynchronization: after a voice-ended terminator, after a crypto       *)
(* detection and after a use_talkgroup that succeeded; a handler that does *)
(* not retune forces none.  (A handler whose send fails does not return.)  *)
(***************************************************************************)
C11_ResyncAfterRetune ==
    LET resyncs == Indices(trace, "resync")
        retunes == {i \in 1..Len(trace) : ToSdr(trace[i])}
    IN  /\ Cardinality(resyncs) <= 1
        /\ Cardinality(retunes) <= 1
        /\ \A r \in resyncs : \E t \in retunes : t < r
        /\ Completed => \A t \in retunes : \E r \in resyncs : t < r
        /\ Completed /\ (VoiceEnded \/ CryptoDetected) => resyncs # {}
        /\ \A i \in 1..Len(trace) :
              IsCall(trace[i]) /\ trace[i].ok =>
                  i < Len(trace) /\ trace[i + 1] = Resync

\* a group traffic update whose second pair is followed ends with the resync
C11_Witness ==
    /\ GroupUpdateAccepted /\ Completed
    /\ Len(Calls) = 2
    /\ Calls[2].ok
    /\ trace[Len(trace)] = Resync

(***************************************************************************)
(* C12.  The return to control leaves current_talkgroup, the Channel       *)
(* Parameter Table and the stored control frequency as they were, and the  *)
(* Encrypted-Group Set too (the crypto-detected transition inserts after   *)
(* it); it sends one SetFreq(control frequency) to status and then one to  *)
(* tuner control.  A voice-ended terminator while following g leaves       *)
(* current_talkgroup = g.  (Sends: handlers that ran to their end.)        *)
(***************************************************************************)
C12_ReturnToControlFrame ==
    /\ VoiceEnded => Fields = before
    /\ CryptoDetected =>
          /\ cur_talkgroup = before.cur_talkgroup
          /\ channels = before.channels
          /\ control_freq = before.control_freq
    /\ (VoiceEnded \/ CryptoDetected) /\ Completed =>
          /\ SentUi = <<Send("ui", SetFreq(before.control_freq))>>
          /\ SentSdr = <<Send("sdr", SetFreq(before.control_freq))>>
          /\ trace[1] = Send("ui", SetFreq(before.control_freq))
          /\ trace[2] = Send("sdr", SetFreq(before.control_freq))

\* the terminator arrives while following a group: the group stays current
C12_Witness ==
    /\ VoiceEnded /\ Completed
    /\ tuner.kind = "control"
    /\ before.cur_talkgroup.tag = "Other"
    /\ cur_talkgroup = before.cur_talkgroup
    /\ cur_talkgroup.id \notin encrypted

(***************************************************************************)
(* C13.  A use_talkgroup call that returns false (its talkgroup is in the  *)
(* Encrypted-Group Set, or its channel id is not in the table) assigns     *)
(* nothing and sends nothing; a group in the set fails whether or not its  *)
(* channel is known.  A group traffic update all of whose calls fail       *)
(* leaves the receiver's fields as they were and sends nothing.            *)
(***************************************************************************)
C13_FailedFollowNoEffect ==
    /\ \A i \in 1..Len(trace) :
          IsCall(trace[i]) =>
              LET c == trace[i]
                  in_set == c.tg.tag = "Other" /\ c.tg.id \in before.encrypted
              IN  /\ in_set \/ ~before.channels[c.ch.id].some <=> ~c.ok
                  /\ ~c.ok => \A j \in 1..(i - 1) : IsCall(trace[j]) /\ ~trace[j].ok
    /\ GroupUpdateAccepted /\ (\A i \in 1..Len(trace) : IsCall(trace[i]) /\ ~trace[i].ok) =>
          /\ Fields = before
          /\ Len(trace) = Len(event.payload.updates)

\* a call fails for a group in the set whose channel is not in the table
C13_Witness ==
    \E i \in 1..Len(trace) :
        /\ IsCall(trace[i]) /\ ~trace[i].ok
        /\ trace[i].tg.tag = "Other"
        /\ trace[i].tg.id \in before.encrypted
        /\ ~before.channels[trace[i].ch.id].some
        /\ \E id \in ChannelIds : before.channels[id].some

(***************************************************************************)
(* C14.  A use_talkgroup call whose talkgroup is not in the                *)
(* Encrypted-Group Set and whose channel id is in the table returns true   *)
(* and switches whatever the state, also when that group is already        *)
(* current: it assigns current_talkgroup, sends SetFreq(frequency) to      *)
(* status and to tuner control and SetTalkGroup to status.                 *)
(***************************************************************************)
C14_FollowAlwaysSwitches ==
    /\ \A i \in 1..Len(trace) :
          IsCall(trace[i]) /\ Followable([ch |-> trace[i].ch, tg |-> trace[i].tg]) =>
              LET c == trace[i]
                  p == before.channels[c.ch.id]
                  freq == p.base + p.spacing * c.ch.number
              IN  /\ c.ok
                  /\ i >= 5
                  /\ trace[i - 4] = AssignTalkGroup(c.tg)
                  /\ trace[i - 3] = Send("ui", SetFreq(freq))
                  /\ trace[i - 2] = Send("sdr", SetFreq(freq))
                  /\ trace[i - 1] = Send("ui", SetTalkGroup(c.tg))
                  /\ cur_talkgroup = c.tg
    /\ GroupUpdateAccepted /\ Completed
       /\ (\E k \in 1..Len(event.payload.updates) : Followable(event.payload.updates[k])) =>
          \E i \in 1..Len(trace) : IsCall(trace[i]) /\ trace[i].ok

\* the group followed is the one that was current already
C14_Witness ==
    /\ Completed
    /\ \E i \in 1..Len(trace) :
          /\ IsCall(trace[i]) /\ trace[i].ok
          /\ trace[i].tg.tag = "Other"
          /\ trace[i].tg = before.cur_talkgroup
    /\ SentSdr # <<>>

(***************************************************************************)
(* C15.  Decode errors, link control messages, low-speed-data fragments,   *)
(* voice terminator messages, packet boundary markers of a data unit that  *)
(* is no voice terminator, and samples that yield no message change no     *)
(* field of the receiver, send nothing and force no resync.                *)
(***************************************************************************)
Ignored ==
    \/ event.kind \in {"None", "Error", "LinkControl", "LowSpeedDataFragment", "VoiceTerm"}
    \/ event.kind = "PacketNID" /\ event.data_unit \notin Terminators

C15_IgnoredEvents == Ignored => Fields = before /\ trace = <<>> /\ Completed

\* a voice terminator message is ignored while following a group
C15_Witness ==
    /\ event.kind = "VoiceTerm"
    /\ tuner.kind = "traffic"
    /\ cur_talkgroup.tag = "Other"

(***************************************************************************)
(* C18.  A disconnected channel is fatal.  A send that finds its receiver  *)
(* gone (tuner control, status or audio) and a receive that finds the      *)
(* producer gone stop the worker: the handler is left at that send, with   *)
(* nothing after it done, and from then on no event or sample is handled,  *)
(* nothing is sent and no field changes; nothing is tried again.           *)
(***************************************************************************)
C18_DisconnectionIsFatal ==
    /\ failed # NoFailure =>
          /\ pc = "panicked"
          /\ IsSend(failed)
          /\ \A i \in 1..Len(trace) :
                trace[i].op \in {"send", "cur_talkgroup", "use_talkgroup"}
          /\ \A i \in 1..Len(trace) : IsCall(trace[i]) => ~trace[i].ok
          /\ encrypted = before.encrypted
          /\ channels = before.channels
          /\ control_freq = before.control_freq
    /\ event.kind = "Disconnected" => pc = "panicked" /\ Fields = before /\ trace = <<>>
    /\ pc = "panicked" => ~ENABLED Next

\* the status took the SetFreq of a return to control, the tuner control is gone
C18_Witness ==
    /\ pc = "panicked"
    /\ VoiceEnded
    /\ failed = Send("sdr", SetFreq(control_freq))
    /\ trace = <<Send("ui", SetFreq(control_freq))>>
    /\ ~ENABLED Next

(***************************************************************************)
(* C19.  The group a crypto detection puts in the Encrypted-Group Set is   *)
(* the talkgroup of the most recent use_talkgroup that succeeded, also     *)
(* when the receiver has returned to control since: a protected voice      *)
(* header or crypto control block met after the return from g, with no     *)
(* follow in between, puts g in the set, and no group of the set is        *)
(* followed afterwards.                                                    *)
(***************************************************************************)
C19_MarksLastFollowed ==
    /\ CryptoDetected /\ Completed =>
          encrypted = before.encrypted \cup
                      (IF followed.tg.tag = "Other" THEN {followed.tg.id} ELSE {})
    /\ \A i \in 1..Len(trace) :
          IsCall(trace[i]) /\ trace[i].ok /\ trace[i].tg.tag = "Other" =>
              trace[i].tg.id \notin before.encrypted

\* the crypto detection comes after an earlier return to control from the group
C19_Witness ==
    /\ CryptoDetected /\ Completed
    /\ followed.returns = 2
    /\ followed.tg.tag = "Other"
    /\ followed.tg.id \in encrypted \ before.encrypted

(***************************************************************************)
(* SpecLog: the worker with the notifications it has delivered and the     *)
(* voice frames it has decoded kept in order, over all handlers.  The      *)
(* decoder answers with the messages of LogMessages; recv() answers any    *)
(* event, as in Spec.                                                      *)
(***************************************************************************)
LogMessages ==
    {m \in MessageEvent :
        \/ m.kind = "VoiceFrame"
        \/ m.kind = "PacketNID" /\ m.data_unit = "VoiceLCTerminator"
        \/ m.kind = "VoiceHeader" /\ m.alg = "DES"
        \/ /\ Accepted(m)
           /\ m.payload.opcode = "ChannelParamsUpdate"
           /\ m.payload.id = 0
           /\ m.payload.params.base = 100
        \/ /\ Accepted(m)
           /\ m.payload.opcode = "GroupVoiceUpdate"
           /\ Len(m.payload.updates) = 1
           /\ m.payload.updates[1].ch = [id |-> 0, number |-> 1]
           /\ m.payload.updates[1].tg.tag = "Other"}

\* one turn of the loop over the samples of the batch, logged
LogHandleSample ==
    /\ pc = "samples"
    /\ \E m \in LogMessages :
          /\ Feed(m)
          /\ frames' = IF m.kind = "VoiceFrame" THEN Append(frames, m.vf) ELSE frames
    /\ log' = log \o SelectSeq(trace', IsSend)
    /\ Len(log') <= MaxLog
    /\ UNCHANGED <<inbox, arrived, received, batch>>

NextLog ==
    \/ RecvBaseband
    \/ RecvSetControlFreq
    \/ RecvDisconnected
    \/ LogHandleSample
    \/ HandleSamplesExtra
    \/ WriteSamplesFailed

SpecLog == Init /\ [][NextLog]_vars

\* the notifications delivered so far, by subsystem and kind, in order
LogUi == SelectSeq(log, ToUi)

LogSdr == SelectSeq(log, ToSdr)

IsSetFreq(e) == e.ev.type = "SetFreq"

IsSetTalkGroup(e) == e.ev.type = "SetTalkGroup"

IsVoiceFrame(e) == ToAudio(e) /\ e.ev.type = "VoiceFrame"

(***************************************************************************)
(* C16.  Every voice frame decoded is sent once to audio as VoiceFrame     *)
(* with that frame, in the order of decoding and whatever the state (also  *)
(* when current_talkgroup is in the Encrypted-Group Set); the handler      *)
(* changes no field of the receiver and sends nothing to tuner control or  *)
(* to status.  (A send that finds the audio side gone stops the worker.)   *)
(***************************************************************************)
C16_VoiceFramesForwarded ==
    LET heard == SelectSeq(log, IsVoiceFrame)
    IN  /\ event.kind = "VoiceFrame" =>
              /\ Fields = before
              /\ trace = IF Completed THEN <<Send("audio", VoiceFrame(event.vf))>> ELSE <<>>
        /\ Completed =>
              /\ Len(heard) = Len(frames)
              /\ \A i \in 1..Len(frames) : heard[i].ev = VoiceFrame(frames[i])

\* two different frames were forwarded, the last while the current group is in the set
C16_Witness ==
    /\ event.kind = "VoiceFrame" /\ Completed
    /\ Len(frames) >= 2
    /\ frames[Len(frames)] # frames[Len(frames) - 1]
    /\ cur_talkgroup.tag = "Other"
    /\ cur_talkgroup.id \in encrypted

(***************************************************************************)
(* C20.  Between events the status has what the receiver has: the          *)
(* talkgroup of the last SetTalkGroup it was sent is current_talkgroup     *)
(* (none sent: current_talkgroup is the initial one).  SetTalkGroup is     *)
(* sent by a use_talkgroup that succeeds and never by a return to control. *)
(* Every retune sends its frequency to status and then to tuner control,   *)
(* so the frequencies the tuner control received are, in order, those of   *)
(* the SetFreq the status received.                                        *)
(***************************************************************************)
C20_StatusView ==
    LET freqs == SelectSeq(LogUi, IsSetFreq)
        tgs == SelectSeq(LogUi, IsSetTalkGroup)
    IN  /\ Completed =>
              cur_talkgroup = IF tgs = <<>> THEN Default ELSE tgs[Len(tgs)].ev.tg
        /\ Completed =>
              /\ Len(freqs) = Len(LogSdr)
              /\ \A i \in 1..Len(freqs) : freqs[i].ev = LogSdr[i].ev
        /\ \A i \in 1..Len(log) :
              ToSdr(log[i]) => i > 1 /\ log[i - 1] = Send("ui", log[i].ev)
        /\ \A i \in 1..Len(trace) :
              ToUi(trace[i]) /\ IsSetTalkGroup(trace[i]) =>
                  /\ ~VoiceEnded /\ ~CryptoDetected
                  /\ i < Len(trace)
                  /\ trace[i + 1] = Called(trace[i].ev.tg, trace[i + 1].ch, TRUE)

\* after a follow and the return to control the status still shows the group
C20_Witness ==
    /\ VoiceEnded /\ Completed
    /\ Len(LogSdr) >= 2
    /\ LogSdr[Len(LogSdr)] # LogSdr[Len(LogSdr) - 1]
    /\ cur_talkgroup.tag = "Other"
    /\ \E i \in 1..Len(log) : log[i] = Send("ui", SetTalkGroup(cur_talkgroup))

(***************************************************************************)
(* SpecQueue: the worker with its inbound channel.  The producer sends     *)
(* events at any time, also while a batch is being fed; recv() hands over  *)
(* the oldest one, and fails when the channel is empty and the producer    *)
(* is gone.  The decoder answers with the messages of QueueMessages.       *)
(***************************************************************************)
QueueEvents ==
    {Baseband(n) : n \in 0..MaxQueueBatch} \cup {SetControlFreq(f) : f \in 1..MaxFreq}

QueueMessages ==
    {NoMessage} \cup
    {m \in MessageEvent :
        \/ m.kind = "PacketNID" /\ m.data_unit = "VoiceLCTerminator"
        \/ m.kind = "VoiceFrame" /\ m.vf = 1}

\* the producer sends an event
Arrive ==
    /\ pc # "panicked"
    /\ Len(arrived) < MaxArrivals
    /\ \E e \in QueueEvents :
          /\ inbox' = Append(inbox, e)
          /\ arrived' = Append(arrived, e)
    /\ UNCHANGED <<state, pc, left, event, trace, before, tuner, last_set, learned,
                   failed, followed, received, batch, log, frames>>

\* recv() hands over the oldest event, a batch
QueueRecvBaseband ==
    /\ pc = "recv"
    /\ inbox # <<>>
    /\ Head(inbox).kind = "Baseband"
    /\ event' = Head(inbox)
    /\ inbox' = Tail(inbox)
    /\ received' = Append(received, Head(inbox))
    /\ batch' = [ev |-> Head(inbox), fed |-> <<>>, sunk |-> <<>>]
    /\ left' = Head(inbox).len
    /\ pc' = IF Head(inbox).len = 0 THEN "extra" ELSE "samples"
    /\ trace' = <<>>
    /\ before' = Fields
    /\ UNCHANGED <<state, tuner, last_set, learned, failed, followed, arrived, log, frames>>

\* mutant: a request to change the control frequency overtakes the batches queued
QueueRecvSetControlFreq_Overtakes ==
    /\ pc = "recv"
    /\ \E i \in 1..Len(inbox) :
          /\ inbox[i].kind = "SetControlFreq"
          /\ event' = inbox[i]
          /\ inbox' = SubSeq(inbox, 1, i - 1) \o SubSeq(inbox, i + 1, Len(inbox))
          /\ received' = Append(received, inbox[i])
          /\ control_freq' = inbox[i].freq
          /\ last_set' = inbox[i].freq
    /\ trace' = <<>>
    /\ before' = Fields
    /\ UNCHANGED <<channels, cur_talkgroup, encrypted, pc, left, tuner, learned,
                   failed, followed, arrived, batch, log, frames>>

\* recv() hands over the oldest event, a request to change the control frequency
QueueRecvSetControlFreq ==
    /\ pc = "recv"
    /\ inbox # <<>>
    /\ Head(inbox).kind = "SetControlFreq"
    /\ event' = Head(inbox)
    /\ inbox' = Tail(inbox)
    /\ received' = Append(received, Head(inbox))
    /\ control_freq' = Head(inbox).freq
    /\ last_set' = Head(inbox).freq
    /\ trace' = <<>>
    /\ before' = Fields
    /\ UNCHANGED <<channels, cur_talkgroup, encrypted, pc, left, tuner, learned,
                   failed, followed, arrived, batch, log, frames>>

\* recv() fails: nothing is queued and the producer has disconnected
QueueDisconnected == inbox = <<>> /\ RecvDisconnected

\* one turn of the loop over the samples of the batch
QueueHandleSample ==
    /\ pc = "samples"
    /\ \E m \in QueueMessages : Feed(m)
    /\ batch' = [batch EXCEPT !.fed = Append(@, batch.ev.len - left + 1)]
    /\ UNCHANGED <<inbox, arrived, received, log, frames>>

\* extra.handle_samples(&samples) returns
QueueExtra ==
    /\ pc = "extra"
    /\ pc' = "recv"
    /\ event' = [kind |-> "Extra"]
    /\ batch' = [batch EXCEPT !.sunk = Append(@, batch.ev)]
    /\ trace' = <<>>
    /\ before' = Fields
    /\ UNCHANGED <<state, left, tuner, last_set, learned, failed, followed,
                   inbox, arrived, received, log, frames>>

NextQueue ==
    \/ Arrive
    \/ QueueRecvBaseband
    \/ QueueRecvSetControlFreq
    \/ QueueDisconnected
    \/ QueueHandleSample
    \/ QueueExtra
    \/ WriteSamplesFailed

SpecQueue == Init /\ [][NextQueue]_vars

\* the control frequency after the events es were received, starting from f
RECURSIVE ControlFreqAfter(_, _)
ControlFreqAfter(es, f) ==
    IF es = <<>> THEN f
    ELSE ControlFreqAfter(Tail(es), IF Head(es).kind = "SetControlFreq"
                                    THEN Head(es).freq ELSE f)

(***************************************************************************)
(* C17.  Inbound events are received one at a time in the order they       *)
(* arrived.  A batch is processed to its end before the next receive:      *)
(* its samples are fed in order, then the sample sink is invoked once,     *)
(* with that batch.  So a SetControlFreq queued behind a batch has no      *)
(* effect on a return to control that a sample of the batch triggers: the  *)
(* frequency sent is the one of the requests received before the batch.    *)
(***************************************************************************)
C17_OneEventAtATime ==
    /\ arrived = received \o inbox
    /\ batch.ev.kind = "Baseband" =>
          /\ batch.fed = [i \in 1..Len(batch.fed) |-> i]
          /\ pc = "samples" => Len(batch.fed) < batch.ev.len /\ batch.sunk = <<>>
          /\ pc = "extra" => Len(batch.fed) = batch.ev.len /\ batch.sunk = <<>>
          /\ pc = "recv" => Len(batch.fed) = batch.ev.len /\ batch.sunk = <<batch.ev>>
    /\ pc \in {"samples", "extra"} =>
          /\ received # <<>>
          /\ received[Len(received)] = batch.ev
    /\ VoiceEnded /\ Completed =>
          /\ control_freq = ControlFreqAfter(received, 0)
          /\ SentSdr = <<Send("sdr", SetFreq(ControlFreqAfter(received, 0)))>>

\* the first sample of a batch of two returns to control while a request for
\* another control frequency waits behind the batch
C17_Witness ==
    /\ VoiceEnded /\ Completed
    /\ pc = "samples"
    /\ batch.ev.len = 2
    /\ batch.fed = <<1>>
    /\ control_freq # 0
    /\ \E i \in 1..Len(inbox) :
          inbox[i].kind = "SetControlFreq" /\ inbox[i].freq # control_freq

====
